---- MODULE Spec2Model ----
(***************************************************************************)
(* PasswordDetector.py (NZBGet queue / post-processing script).            *)
(*                                                                         *)
(* One run of the script is modelled as a sequence of steps of `main`:     *)
(* start_check, sort_inner_files, get_latest_file, the scan loop of        *)
(* contains_password, the decision block of main and clean_up.  The host   *)
(* (NZBGet) runs one script at a time; between two runs the environment    *)
(* downloads files, removes directories and changes the download queue.    *)
(*                                                                         *)
(* Filenames and the tested-file record are sequences of characters, so    *)
(* that the text written by save_tested and the text read back with        *)
(* read().splitlines() are two different things.                           *)
(***************************************************************************)
EXTENDS Integers, Sequences, FiniteSets, TLC

----------------------------------------------------------------------------
(* Bounds of the model *)

NumJobs == 2
MaxFiles == 2
MaxListing == 2
MaxNames == 2

(* Exit codes *)
POSTPROCESS_SUCCESS == 93
POSTPROCESS_NONE == 95
POSTPROCESS_ERROR == 94
EXIT_IGNORED == 0
EXIT_CRASH == 1

Jobs == 1..NumJobs

----------------------------------------------------------------------------
(* Characters and text *)

LF == "LF"
CR == "CR"
LineBreaks == {LF, CR}

Digits == <<"0", "1", "2", "3", "4", "5", "6", "7", "8", "9">>

IsDigit(c) == \E d \in 1..10 : Digits[d] = c

DigitVal(c) == (CHOOSE d \in 1..10 : Digits[d] = c) - 1

\* str.lower() / re.IGNORECASE on the letters the patterns use
Lower(c) ==
    CASE c = "P" -> "p"
      [] c = "A" -> "a"
      [] c = "R" -> "r"
      [] c = "T" -> "t"
      [] c = "M" -> "m"
      [] OTHER -> c

\* True iff text s has the characters of pat at position i (exact case)
HasAt(s, i, pat) ==
    /\ i >= 1
    /\ i + Len(pat) - 1 <= Len(s)
    /\ \A k \in 1..Len(pat) : s[i + k - 1] = pat[k]

\* True iff text s has pat at position i, ignoring case
HasAtNoCase(s, i, pat) ==
    /\ i >= 1
    /\ i + Len(pat) - 1 <= Len(s)
    /\ \A k \in 1..Len(pat) : Lower(s[i + k - 1]) = pat[k]

\* Python: sub in s
Contains(sub, s) == \E i \in 1..Len(s) : HasAt(s, i, sub)

\* Python: str.splitlines()
RECURSIVE splitlines(_)
splitlines(s) ==
    IF s = <<>> THEN <<>>
    ELSE LET brk == {i \in 1..Len(s) : s[i] \in LineBreaks}
         IN  IF brk = {} THEN <<s>>
             ELSE LET k == CHOOSE i \in brk : \A m \in brk : i <= m
                      n == IF s[k] = CR /\ k < Len(s) /\ s[k + 1] = LF
                           THEN k + 2 ELSE k + 1
                  IN  <<SubSeq(s, 1, k - 1)>> \o splitlines(SubSeq(s, n, Len(s)))

Range(q) == {q[i] : i \in 1..Len(q)}

\* All orders in which the elements of the finite set S can be iterated
RECURSIVE Orders(_)
Orders(S) ==
    IF S = {} THEN {<<>>}
    ELSE UNION {{<<x>> \o q : q \in Orders(S \ {x})} : x \in S}

----------------------------------------------------------------------------
(* sort_inner_files: the choice of the last rar-file *)

\* Number of consecutive digits of s starting at position i
RECURSIVE DigitRun(_, _)
DigitRun(s, i) ==
    IF i <= Len(s) /\ IsDigit(s[i]) THEN 1 + DigitRun(s, i + 1) ELSE 0

\* int() of the digits s[i .. i+n-1]
RECURSIVE ToInt(_, _, _)
ToInt(s, i, n) ==
    IF n = 0 THEN 0 ELSE ToInt(s, i, n - 1) * 10 + DigitVal(s[i + n - 1])

Max(S) == CHOOSE x \in S : \A y \in S : y <= x

PatPart == <<".", "p", "a", "r", "t">>
PatRar == <<".", "r", "a", "r">>
PatR == <<".", "r">>

\* Positions where  \.part(\d+)\.rar  matches (re.IGNORECASE)
regex1(s) ==
    {i \in 1..Len(s) :
        /\ HasAtNoCase(s, i, PatPart)
        /\ DigitRun(s, i + 5) >= 1
        /\ HasAtNoCase(s, i + 5 + DigitRun(s, i + 5), PatRar)}

\* Positions where  \.r(\d+)  matches (re.IGNORECASE)
regex2(s) ==
    {i \in 1..Len(s) : HasAtNoCase(s, i, PatR) /\ DigitRun(s, i + 2) >= 1}

\* regex1.match(cur_name) or regex2.match(cur_name), then int(match.group(1)):
\* the leading .* is greedy, so the last position that matches is taken.
\* The result is {cur_num}, or {} when neither pattern matches.
MatchNum(s) ==
    IF regex1(s) # {}
    THEN LET i == Max(regex1(s)) IN {ToInt(s, i + 5, DigitRun(s, i + 5))}
    ELSE IF regex2(s) # {}
    THEN LET i == Max(regex2(s)) IN {ToInt(s, i + 2, DigitRun(s, i + 2))}
    ELSE {}

\* file_num = file_id = file_name = None (isNone); the other fields then unused
NoChoice == [isNone |-> TRUE, file_num |-> 0, file_id |-> 0, file_name |-> <<>>]

\* One "ID"/"Filename" pair of the reply (lines 344-354);
\* "not file_num" is true of None and of 0
SelectStep(st, ent) ==
    IF \E cur_num \in MatchNum(ent.name) :
            st.isNone \/ st.file_num = 0 \/ cur_num > st.file_num
    THEN [isNone |-> FALSE, file_num |-> Max(MatchNum(ent.name)),
          file_id |-> ent.id, file_name |-> ent.name]
    ELSE st

\* The loop over the reply of listfiles: lines 339-354
RECURSIVE SelectLoop(_, _)
SelectLoop(data, n) ==
    IF n = 0 THEN NoChoice ELSE SelectStep(SelectLoop(data, n - 1), data[n])

SelectTop(data) == SelectLoop(data, Len(data))

\* Inner file names of an nzb
N_part00 == <<"a", ".", "p", "a", "r", "t", "0", "0", ".", "r", "a", "r">>
N_part02 == <<"a", ".", "p", "a", "r", "t", "0", "2", ".", "r", "a", "r">>
N_PART10 == <<"a", ".", "P", "A", "R", "T", "1", "0", ".", "R", "A", "R">>
N_bpart10 == <<"b", ".", "p", "a", "r", "t", "1", "0", ".", "r", "a", "r">>
N_r00 == <<"a", ".", "r", "0", "0">>
N_br00 == <<"b", ".", "r", "0", "0">>
N_r1 == <<"a", ".", "r", "1">>
N_r10 == <<"a", ".", "R", "1", "0">>
N_rar == <<"a", ".", "r", "a", "r">>
N_nfo == <<"a", ".", "n", "f", "o">>

InnerNames ==
    {N_part00, N_part02, N_PART10, N_bpart10, N_r00, N_br00, N_r1, N_r10, N_rar, N_nfo}

\* Replies of listfiles: (ID, Filename) pairs of distinct files, the IDs
\* ascending from 1
Listings(maxLen) ==
    UNION {{[i \in 1..n |-> [id |-> i, name |-> f[i]]] :
                f \in {g \in [1..n -> InnerNames] :
                          \A i, k \in 1..n : i # k => g[i] # g[k]}}
           : n \in 0..maxLen}

----------------------------------------------------------------------------
(* The script's world: the temp folder, the jobs' directories, the host *)

\* Files of the jobs' download directories
F_a == <<"a">>
F_b == <<"b">>
F_tmp == <<"a", ".", "t", "m", "p">>
F_c == <<"c">>
AllFiles == {F_a, F_b, F_tmp, F_c}

\* The files of job j's directory in the order os.listdir returns them, once all
\* are downloaded: jobs with an odd ID have no .tmp file among their first two
DirOrder(j) ==
    IF j % 2 = 1 THEN <<F_a, F_b, F_tmp, F_c>> ELSE <<F_tmp, F_a, F_b, F_c>>

PatTmp == <<"t", "m", "p">>

\* No temp file: a value that is not the text of any file
NoFile == <<"NoFile">>

Events == {"NZB_ADDED", "FILE_DOWNLOADED", "NZB_DOWNLOADED", "PP", "OTHER"}
\* Values of NZBPO_PASSACTION: the two of the script's options, and any other text
Actions == {"Pause", "Mark Bad", "Other"}
ProbeResults == {"positive", "negative", "error"}

\* Replies of listfiles the host gives in a run of the whole script
NzbListings ==
    { <<>>,
      <<[id |-> 1, name |-> N_nfo]>>,
      <<[id |-> 1, name |-> N_part02], [id |-> 2, name |-> N_PART10]>> }

VARIABLES
    store,        \* store[j]: text of the temp file of job j, or NoFile
    tempDir,      \* the folder TempDir/PasswordDetector exists
    hasPassword,  \* NZBPR_PASSWORDDETECTOR_HASPASSWORD = yes, per job
    sorted,       \* NZBPR_FAKEDETECTOR_SORTED = yes, per job
    paused,       \* GroupPause succeeded for the job
    probed,       \* probed[j]: the files unrar was run on in the present life of job j
                  \* (emptied by j's own clean_up, and when the temp file of j is
                  \* removed while j is not in the download queue)
    pc,           \* position of the running script, "idle" between runs
    job,          \* NZBNA_NZBID / NZBPP_NZBID of the run
    event,        \* NZBNA_EVENT of the run ("PP": absent, post-processing)
    flagged,      \* NZBPR_PASSWORDDETECTOR_HASPASSWORD = yes in the run's environment
    dirOk,        \* the job's directory exists during the run
    preset,       \* NZBPR_*Unpack:Password is set
    status,       \* NZBPP_STATUS ("absent" outside post-processing)
    total,        \* NZBPP_TOTALSTATUS ("absent" outside post-processing)
    passAction,   \* NZBPO_PASSACTION: "missing", "set", and its value once it is used
    listing,      \* os.listdir(dir_name) of the run, once read
    rule,         \* the check of start_check that ended the run, or "none"
    files,        \* contains_password: the files still to visit
    visited,      \* contains_password: the files the loop has visited
    probes,       \* the unrar runs of this script run: <<file, result>>
    tested,       \* contains_password: the text collected in `tested`
    reprobe,      \* a file was given to unrar that is in probed[job]
    calls,        \* requests to the host made by this run
    marks,        \* "[NZB] ..." commands this run printed
    queue,        \* clean_up: the jobs in the download queue at that time
    removed,      \* clean_up: the temp files it removed
    exitAfter,    \* exit code start_check / main passes after clean_up
    exitCode,     \* exit code of the run (pc = "done")
    sel,          \* the selection of sort_inner_files on its own
    trk           \* the tested-file record on its own

world == <<store, tempDir, hasPassword, sorted, paused, probed>>
runvars == <<pc, job, event, flagged, dirOk, preset, status, total, passAction, listing, rule, files, visited, probes, tested,
             reprobe, calls, marks, queue, removed, exitAfter, exitCode>>
vars == <<world, runvars, sel, trk>>

\* os.listdir of job j's directory when it holds n files
listdir(j, n) == SubSeq(DirOrder(j), 1, n)

SelOff == [phase |-> "off", data |-> <<>>, pos |-> 0, choice |-> NoChoice]
TrkOff == [phase |-> "off", job |-> 0, F |-> <<>>, out |-> {}]

Init ==
    /\ store = [j \in Jobs |-> NoFile]
    /\ tempDir = FALSE
    /\ hasPassword = [j \in Jobs |-> FALSE]
    /\ sorted = [j \in Jobs |-> FALSE]
    /\ paused = [j \in Jobs |-> FALSE]
    /\ probed = [j \in Jobs |-> {}]
    /\ pc = "idle"
    /\ job = 0
    /\ event = "none"
    /\ flagged = FALSE
    /\ dirOk = TRUE
    /\ preset = FALSE
    /\ status = "absent"
    /\ total = "absent"
    /\ passAction = "none"
    /\ listing = <<>>
    /\ rule = "none"
    /\ files = <<>>
    /\ visited = <<>>
    /\ probes = <<>>
    /\ tested = <<>>
    /\ reprobe = FALSE
    /\ calls = <<>>
    /\ marks = <<>>
    /\ queue = {}
    /\ removed = {}
    /\ exitAfter = 0
    /\ exitCode = 0
    /\ sel = SelOff
    /\ trk = TrkOff

\* sys.exit(code)
Exit(code) ==
    /\ pc' = "done"
    /\ exitCode' = code

\* clean_up() followed by sys.exit(code)
CleanUpThenExit(code) ==
    /\ pc' = "clean_up"
    /\ exitAfter' = code
    /\ UNCHANGED exitCode

----------------------------------------------------------------------------
(* One run of the script *)

\* Lines 409-443 of main: where the run goes after start_check returned
AfterStartCheck(j, ev) ==
    IF ev = "NZB_ADDED" \/ (ev = "FILE_DOWNLOADED" /\ ~sorted[j])
    THEN "sort" ELSE "detect"

\* A start_check without the option check: the option is never found missing
PassActionNeverMissing(paSet) == FALSE

\* optname not in os.environ
PassActionMissing(paSet) == ~paSet

\* A start_check that tests the directory (lines 159-162) before the status,
\* the flag and the preset password
StartRuleDirectoryFirst(ev, st, flag, pw, dir, tot, paSet) ==
    IF ev = "OTHER" THEN "UnknownEvent"
    ELSE IF ev = "PP" /\ ~dir THEN "SkipMissingDirectory"
    ELSE IF st = "FAILURE/BAD" THEN "SkipAlreadyMarked"
    ELSE IF flag THEN "SkipPasswordFound"
    ELSE IF pw THEN "SkipPasswordPreset"
    ELSE IF tot = "FAILURE" THEN "SkipAlreadyFailed"
    ELSE IF PassActionMissing(paSet) THEN "PreconditionError"
    ELSE "none"

\* The checks of start_check in the order of lines 132-173: the first one that
\* applies ends the run ("none": start_check returns)
StartRule(ev, st, flag, pw, dir, tot, paSet) ==
    IF ev = "OTHER" THEN "UnknownEvent"
    ELSE IF st = "FAILURE/BAD" THEN "SkipAlreadyMarked"
    ELSE IF flag THEN "SkipPasswordFound"
    ELSE IF pw THEN "SkipPasswordPreset"
    ELSE IF ev = "PP" /\ ~dir THEN "SkipMissingDirectory"
    ELSE IF tot = "FAILURE" THEN "SkipAlreadyFailed"
    ELSE IF PassActionMissing(paSet) THEN "PreconditionError"
    ELSE "none"

\* The host starts the script for job j; start_check runs.
\*   ev      NZBNA_EVENT ("PP": post-processing, NZBPP_DIRECTORY is set)
\*   dir     the job's directory exists
\*   paSet   NZBPO_PASSACTION is set
\*   pw      NZBPR_*Unpack:Password is set
\*   st      NZBPP_STATUS, tot  NZBPP_TOTALSTATUS (post-processing only)
start_check(j, ev, dir, paSet, pw, st, tot) ==
    /\ pc = "idle"
    /\ job' = j
    /\ event' = ev
    /\ flagged' = hasPassword[j]
    /\ dirOk' = dir
    /\ preset' = pw
    /\ status' = st
    /\ total' = tot
    /\ passAction' = IF paSet THEN "set" ELSE "missing"
    /\ LET r == StartRule(ev, st, hasPassword[j], pw, dir, tot, paSet)
       IN  /\ rule' = r
           /\ IF r = "UnknownEvent"
              THEN Exit(EXIT_IGNORED) /\ UNCHANGED exitAfter
              ELSE IF r = "SkipAlreadyMarked"
              THEN CleanUpThenExit(POSTPROCESS_SUCCESS)
              ELSE IF r \in {"SkipPasswordFound", "SkipPasswordPreset"}
              THEN IF ev = "PP"
                   THEN CleanUpThenExit(POSTPROCESS_SUCCESS)
                   ELSE Exit(POSTPROCESS_SUCCESS) /\ UNCHANGED exitAfter
              ELSE IF r \in {"SkipMissingDirectory", "SkipAlreadyFailed"}
              THEN CleanUpThenExit(POSTPROCESS_NONE)
              ELSE IF r = "PreconditionError"
              THEN Exit(POSTPROCESS_ERROR) /\ UNCHANGED exitAfter
              ELSE /\ pc' = AfterStartCheck(j, ev)
                   /\ UNCHANGED <<exitAfter, exitCode>>
    /\ UNCHANGED <<world, listing, files, visited, probes, tested, reprobe, calls, marks,
                   queue, removed, sel, trk>>

\* Lines 433-443 of main with sort_inner_files.
\*   data    the reply of listfiles ('' when the request failed)
\*   moveOk  editqueue('FileMoveTop') returns; otherwise it raises
sort_inner_files(data, moveOk) ==
    /\ pc = "sort"
    /\ IF sorted[job]
       THEN \* previously sorted: only NZB_ADDED comes here
            /\ data = <<>>
            /\ moveOk
            /\ Exit(POSTPROCESS_NONE)
            /\ UNCHANGED <<calls, marks, sorted>>
       ELSE LET choice == SelectTop(data)
                move == ~choice.isNone /\ choice.file_id # 0
            IN  /\ move \/ moveOk
                /\ calls' = calls \o <<"listfiles">>
                              \o (IF move THEN <<"FileMoveTop">> ELSE <<>>)
                /\ IF move /\ ~moveOk
                   THEN \* the exception of editqueue ends the script
                        /\ Exit(EXIT_CRASH)
                        /\ UNCHANGED <<marks, sorted>>
                   ELSE /\ marks' = Append(marks, "SORTED=yes")
                        /\ sorted' = [sorted EXCEPT ![job] = TRUE]
                        /\ IF event = "NZB_ADDED"
                           THEN Exit(POSTPROCESS_NONE)
                           ELSE pc' = "detect" /\ UNCHANGED exitCode
    /\ UNCHANGED <<store, tempDir, hasPassword, paused, probed>>
    /\ UNCHANGED <<job, event, flagged, dirOk, preset, status, total, listing, passAction, rule, files, visited, probes, tested,
                   reprobe, queue, removed, exitAfter, sel, trk>>

\* list(set(files) - set(tested)): the untested files, as a set
Untested(listed, testedLines) == Range(listed) \ Range(testedLines)

\* The orders in which list(set) can hold the elements of the set S
IterationOrders(S) == Orders(S)

\* get_latest_file(dir_name), called first by contains_password.
\*   n      the number of files in the directory
\*   order  the order of the list made from the set difference
get_latest_file(n, order) ==
    /\ pc = "detect"
    /\ IF store[job] # NoFile /\ dirOk
       THEN \* the try block: the temp file is read and the directory listed
            /\ order \in IterationOrders(Untested(listdir(job, n), splitlines(store[job])))
            /\ listing' = listdir(job, n)
            /\ files' = order
            /\ pc' = "scan"
            /\ UNCHANGED <<store, tempDir, exitCode>>
       ELSE \* the except block: open() or os.listdir() raised
            /\ order = <<>>
            /\ tempDir' = TRUE
            /\ store' = [store EXCEPT ![job] = <<>>]
            /\ IF dirOk
               THEN /\ listing' = listdir(job, n)
                    /\ files' = listdir(job, n)
                    /\ pc' = "scan"
                    /\ UNCHANGED exitCode
               ELSE \* os.listdir raises again, outside any try
                    /\ n = 0
                    /\ Exit(EXIT_CRASH)
                    /\ UNCHANGED <<files, listing>>
    /\ UNCHANGED <<hasPassword, sorted, paused, probed>>
    /\ UNCHANGED <<job, event, flagged, dirOk, preset, status, total, passAction, rule, visited,
                   probes, tested, reprobe, calls, marks, queue, removed, exitAfter,
                   sel, trk>>

\* A loop without line 266: it goes on after a positive result
AfterProbeNoReturn(r) == "scan"

\* A loop in which the exception of a probe counts as a password found
AfterProbeErrorFound(r) == IF r \in {"positive", "error"} THEN "found" ELSE "scan"

\* check_passwordstrings(out, err) is true: return True, leaving the loop
AfterProbe(r) == IF r = "positive" THEN "found" ELSE "scan"

\* tested += file + '\n'
AddTested(text, f) == text \o f \o <<LF>>

\* One pass of the loop of contains_password over the next file.
\*   r  what the run of unrar gives: marker text found, not found, or an exception
contains_password(r) ==
    /\ pc = "scan"
    /\ files # <<>>
    /\ LET f == Head(files)
       IN  /\ files' = Tail(files)
           /\ visited' = Append(visited, f)
           /\ IF Contains(PatTmp, f)
              THEN /\ r = "negative"
                   /\ tested' = AddTested(tested, f)
                   /\ UNCHANGED <<probes, probed, reprobe, pc>>
              ELSE /\ probes' = Append(probes, <<f, r>>)
                   /\ probed' = [probed EXCEPT ![job] = @ \cup {f}]
                   /\ reprobe' = (reprobe \/ f \in probed[job])
                   /\ pc' = AfterProbe(r)
                   /\ tested' = IF AfterProbe(r) = "found" THEN tested
                                ELSE AddTested(tested, f)
    /\ UNCHANGED <<store, tempDir, hasPassword, sorted, paused>>
    /\ UNCHANGED <<job, event, flagged, dirOk, preset, status, total, listing, passAction, rule, calls, marks, queue, removed,
                   exitAfter, exitCode, sel, trk>>

\* open(tmp_file_name, "a") and write(data): the text of the file afterwards
Appended(old, data) == (IF old = NoFile THEN <<>> ELSE old) \o data

\* The loop of contains_password is over: save_tested(tested), return None
save_tested ==
    /\ pc = "scan"
    /\ files = <<>>
    /\ store' = [store EXCEPT ![job] = Appended(@, tested)]
    /\ pc' = "notfound"
    /\ UNCHANGED <<tempDir, hasPassword, sorted, paused, probed>>
    /\ UNCHANGED <<job, event, flagged, dirOk, preset, status, total, listing, passAction, rule, files, visited, probes, tested,
                   reprobe, calls, marks, queue, removed, exitAfter, exitCode, sel, trk>>

\* An end of main without line 492: the script ends with the no-opinion code
FinishNoOpinion ==
    IF event = "PP"
    THEN CleanUpThenExit(POSTPROCESS_NONE)
    ELSE Exit(POSTPROCESS_NONE) /\ UNCHANGED exitAfter

\* Lines 479-484 of main and line 492: clean_up in post-processing, then success
Finish ==
    IF event = "PP"
    THEN CleanUpThenExit(POSTPROCESS_SUCCESS)
    ELSE Exit(POSTPROCESS_SUCCESS) /\ UNCHANGED exitAfter

\* Lines 448-467 of main: contains_password returned True.
\*   action   the value of NZBPO_PASSACTION
\*   pauseOk  editqueue('GroupPause') returns; otherwise it raises
password_found(action, pauseOk) ==
    /\ pc = "found"
    /\ passAction' = action
    /\ hasPassword' = [hasPassword EXCEPT ![job] = TRUE]
    /\ marks' = marks \o <<"HASPASSWORD=yes">>
                      \o (IF action = "Mark Bad" THEN <<"MARK=BAD">> ELSE <<>>)
    /\ IF action = "Pause"
       THEN /\ calls' = Append(calls, "GroupPause")
            /\ IF pauseOk
               THEN /\ paused' = [paused EXCEPT ![job] = TRUE]
                    /\ Finish
               ELSE \* the exception of editqueue ends the script
                    /\ Exit(EXIT_CRASH)
                    /\ UNCHANGED <<paused, exitAfter>>
       ELSE /\ pauseOk
            /\ Finish
            /\ UNCHANGED <<calls, paused>>
    /\ UNCHANGED <<store, tempDir, sorted, probed>>
    /\ UNCHANGED <<job, event, flagged, dirOk, preset, status, total, listing, rule, files, visited, probes, tested, reprobe,
                   queue, removed, sel, trk>>

\* Lines 468-477 of main: contains_password returned None
not_found ==
    /\ pc = "notfound"
    /\ IF flagged
       THEN /\ marks' = Append(marks, "HASPASSWORD=")
            /\ hasPassword' = [hasPassword EXCEPT ![job] = FALSE]
       ELSE UNCHANGED <<marks, hasPassword>>
    /\ Finish
    /\ UNCHANGED <<store, tempDir, sorted, paused, probed>>
    /\ UNCHANGED <<job, event, flagged, dirOk, preset, status, total, listing, passAction, rule, files, visited, probes, tested,
                   reprobe, calls, queue, removed, sel, trk>>

\* The temp files that exist: os.listdir(temp_folder)
TempFiles == {k \in Jobs : store[k] # NoFile}

\* A clean_up without lines 389-390: the own temp file is not added
OldTempFilesNotOwn(tempFiles, nzbids, nzb_id) == tempFiles \ nzbids

\* Lines 388-390: the temp files clean_up removes
OldTempFiles(tempFiles, nzbids, nzb_id) ==
    (tempFiles \ nzbids) \cup (IF nzb_id \in tempFiles THEN {nzb_id} ELSE {})

\* A clean_up without the test of line 378: the host is always asked
AsksHostAlways(tempFiles) == TRUE

\* len(files) > 1: the host is asked for the download queue
AsksHost(tempFiles) == Cardinality(tempFiles) > 1

\* clean_up(), then the exit that follows it.
\*   inQueue  the jobs in the download queue now
\*   replyOk  listgroups is answered; otherwise call_nzbget_direct returns ''
clean_up(inQueue, replyOk) ==
    /\ pc = "clean_up"
    /\ queue' = inQueue
    /\ IF tempDir
       THEN LET asks == AsksHost(TempFiles)
                nzbids == IF asks /\ replyOk THEN inQueue ELSE {}
                old == OldTempFiles(TempFiles, nzbids, job)
            IN  /\ asks \/ replyOk
                /\ calls' = IF asks THEN Append(calls, "listgroups") ELSE calls
                /\ removed' = old
                /\ store' = [k \in Jobs |-> IF k \in old THEN NoFile ELSE store[k]]
       ELSE /\ replyOk
            /\ removed' = {}
            /\ UNCHANGED <<calls, store>>
    /\ probed' = [k \in Jobs |->
                     IF k = job \/ (k \in removed' /\ k \notin inQueue)
                     THEN {} ELSE probed[k]]
    /\ Exit(exitAfter)
    /\ UNCHANGED <<tempDir, hasPassword, sorted, paused>>
    /\ UNCHANGED <<job, event, flagged, dirOk, preset, status, total, listing, passAction, rule, files, visited, probes, tested,
                   reprobe, marks, exitAfter, sel, trk>>

\* The script has ended; the host may start the next one
script_exit ==
    /\ pc = "done"
    /\ pc' = "idle"
    /\ job' = 0
    /\ event' = "none"
    /\ flagged' = FALSE
    /\ dirOk' = TRUE
    /\ preset' = FALSE
    /\ status' = "absent"
    /\ total' = "absent"
    /\ passAction' = "none"
    /\ listing' = <<>>
    /\ rule' = "none"
    /\ files' = <<>>
    /\ visited' = <<>>
    /\ probes' = <<>>
    /\ tested' = <<>>
    /\ reprobe' = FALSE
    /\ calls' = <<>>
    /\ marks' = <<>>
    /\ queue' = {}
    /\ removed' = {}
    /\ exitAfter' = 0
    /\ exitCode' = 0
    /\ UNCHANGED <<world, sel, trk>>

----------------------------------------------------------------------------
(* The runs the host and the environment allow *)

PPStatus(ev) == IF ev = "PP" THEN {"SUCCESS", "FAILURE/BAD"} ELSE {"absent"}
PPTotalStatus(ev) == IF ev = "PP" THEN {"SUCCESS", "FAILURE"} ELSE {"absent"}
FileOrders == UNION {Orders(S) : S \in SUBSET AllFiles}

Next ==
    \/ \E j \in Jobs, ev \in Events, dir \in BOOLEAN, paSet \in BOOLEAN, pw \in BOOLEAN :
         \E st \in PPStatus(ev), tot \in PPTotalStatus(ev) :
            start_check(j, ev, dir, paSet, pw, st, tot)
    \/ \E data \in NzbListings, moveOk \in BOOLEAN : sort_inner_files(data, moveOk)
    \/ \E n \in 0..MaxFiles, order \in FileOrders : get_latest_file(n, order)
    \/ \E r \in ProbeResults : contains_password(r)
    \/ save_tested
    \/ \E action \in Actions, pauseOk \in BOOLEAN : password_found(action, pauseOk)
    \/ not_found
    \/ \E inQueue \in SUBSET Jobs, replyOk \in BOOLEAN : clean_up(inQueue, replyOk)
    \/ script_exit

Spec == Init /\ [][Next]_vars

----------------------------------------------------------------------------
(* Properties of the runs *)

RecordedNames(j) == IF store[j] = NoFile THEN {} ELSE Range(splitlines(store[j]))

PositiveAt(i) == probes[i][2] = "positive"
NoPositive == \A i \in 1..Len(probes) : ~PositiveAt(i)

\* Position of file f in the sequence q (0 when absent)
Pos(q, f) == IF \E i \in 1..Len(q) : q[i] = f
             THEN CHOOSE i \in 1..Len(q) : q[i] = f ELSE 0

\* clean_up has run in the run that just ended
CleanedUp == pc = "done" /\ exitAfter # 0

Detecting == {"FILE_DOWNLOADED", "NZB_DOWNLOADED", "PP"}

\* C1: unrar is run on a file of a job at most once in the life of the job (up
\* to the job's own terminal clean_up, or its leaving the download queue): no
\* run gives unrar a file that it was already given for that job.
C1_ProbedOnce == ~reprobe

\* C2: when a run that went through the scan loop ends on a queue event (no
\* clean_up follows), every filename the loop visited is in the job's temp file.
C2_VisitedRecorded ==
    (pc = "done" /\ event # "PP" /\ visited # <<>> /\ exitCode = POSTPROCESS_SUCCESS)
        => Range(visited) \subseteq RecordedNames(job)

\* C3: a run on a detecting event for a job that carries the password-found
\* flag, in which status, password preset and directory stop nothing and no
\* probe is positive, ends with success and with the flag cleared.
C3_FlagCleared ==
    (/\ pc = "done"
     /\ event \in Detecting
     /\ flagged
     /\ status # "FAILURE/BAD" /\ total # "FAILURE" /\ ~preset /\ dirOk
     /\ passAction # "missing"
     /\ NoPositive)
        => (exitCode = POSTPROCESS_SUCCESS /\ ~hasPassword[job])

\* C4: the set of filenames in a job's temp file only grows from one state to
\* the next, unless clean_up removes the whole file.
C4_RecordGrows ==
    [][\A j \in Jobs :
          store[j] # NoFile =>
              \/ pc = "clean_up" /\ store'[j] = NoFile
              \/ /\ store'[j] # NoFile
                 /\ Range(splitlines(store[j])) \subseteq Range(splitlines(store'[j]))]_vars

\* C5: clean_up removes every temp file of a job that is not in the download
\* queue and keeps every temp file of a job that is in the queue and is not the
\* current job.
C5_CleanupByQueue ==
    CleanedUp =>
        \A k \in TempFiles \cup removed :
            /\ k \notin queue => k \in removed
            /\ (k \in queue /\ k # job) => k \notin removed

\* C7: the files a run gives to unrar are taken in the order of the directory
\* listing.
C7_ListingOrder ==
    \A i, k \in 1..Len(probes) :
        i < k => Pos(listing, probes[i][1]) < Pos(listing, probes[k][1])

\* C8: a positive probe is the last probe of its run.
C8_PositiveIsLast ==
    \A i \in 1..Len(probes) : PositiveAt(i) => i = Len(probes)

\* C8 witness: a run ended after a positive probe that left a file unvisited
C8_Witness ==
    /\ pc = "done"
    /\ Len(probes) >= 1
    /\ PositiveAt(Len(probes))
    /\ files # <<>>

\* One of the checks of start_check that come before the option check applies
StopsBeforeOption ==
    \/ event = "OTHER"
    \/ status = "FAILURE/BAD"
    \/ hasPassword[job]
    \/ preset
    \/ event = "PP" /\ ~dirOk
    \/ total = "FAILURE"

\* C10 as claimed: a run on a known event with PassAction missing ends with the
\* hard-error code, with no probe, no host request and no temp file removed.
C10_MissingOptionAlwaysFatal ==
    (pc = "done" /\ passAction = "missing" /\ event # "OTHER")
        => (/\ exitCode = POSTPROCESS_ERROR
            /\ probes = <<>>
            /\ calls = <<>>
            /\ removed = {})

\* C10 amended: when PassAction is missing and none of the earlier checks of
\* start_check applies, the step that starts the run also ends it, with the
\* hard-error code, leaving the temp files and the flags as they were, with no
\* probe and no host request.
C10_MissingOptionFatal ==
    [][(pc = "idle" /\ passAction' = "missing" /\ ~StopsBeforeOption')
          => (/\ pc' = "done"
              /\ exitCode' = POSTPROCESS_ERROR
              /\ store' = store /\ tempDir' = tempDir
              /\ hasPassword' = hasPassword /\ sorted' = sorted
              /\ probes' = <<>> /\ visited' = <<>>
              /\ calls' = <<>> /\ marks' = <<>>)]_vars

\* C10 witness: a run for a job that has a temp file ended on the missing option
C10_Witness ==
    /\ pc = "done"
    /\ passAction = "missing"
    /\ ~StopsBeforeOption
    /\ exitCode = POSTPROCESS_ERROR
    /\ store[job] # NoFile

\* The run ended in the exception of editqueue('FileMoveTop')
SortCrashed ==
    /\ exitCode = EXIT_CRASH
    /\ "FileMoveTop" \in Range(calls)
    /\ "SORTED=yes" \notin Range(marks)

\* The run that ended stopped after the reordering block (job added to queue)
ReorderOnly == rule = "none" /\ event = "NZB_ADDED" /\ ~SortCrashed

\* The run that ended had entered the detection (contains_password was called)
WentThroughDetecting == rule = "none" /\ event \in Detecting /\ ~SortCrashed

SkipsWithSuccess == {"SkipAlreadyMarked", "SkipPasswordFound", "SkipPasswordPreset"}
SkipsWithNoOpinion == {"SkipMissingDirectory", "SkipAlreadyFailed"}

\* C11 as claimed: a run that stops in a skip state or after the reordering
\* ends with the no-opinion code, and only a run that went through the
\* detection ends with the success code.
C11_SkipsGiveNoOpinion ==
    pc = "done" =>
        /\ (rule \in SkipsWithSuccess \cup SkipsWithNoOpinion \/ ReorderOnly)
              => exitCode = POSTPROCESS_NONE
        /\ exitCode = POSTPROCESS_SUCCESS => WentThroughDetecting

\* C11 amended: the runs stopped by a missing directory or a failed total status
\* and the runs that only reorder end with the no-opinion code; the runs stopped
\* because the job is marked bad, flagged or has a password preset end with the
\* success code; the success code is given by these and by the runs that went
\* through the detection, and the no-opinion code by no run that did.
C11_Outcomes ==
    pc = "done" =>
        /\ (rule \in SkipsWithNoOpinion \/ ReorderOnly) => exitCode = POSTPROCESS_NONE
        /\ rule \in SkipsWithSuccess => exitCode = POSTPROCESS_SUCCESS
        /\ exitCode = POSTPROCESS_SUCCESS
              => (rule \in SkipsWithSuccess \/ WentThroughDetecting)
        /\ exitCode = POSTPROCESS_NONE
              => (rule \in SkipsWithNoOpinion \/ ReorderOnly)

\* C11 witness: a post-processing run stopped on the FAILURE/BAD status and ended
\* with the success code after clean_up
C11_Witness ==
    /\ pc = "done"
    /\ rule = "SkipAlreadyMarked"
    /\ CleanedUp
    /\ exitCode = POSTPROCESS_SUCCESS

\* C12: a run on the FILE_DOWNLOADED event that asked the host to move a file
\* to the top goes on to the detection, whether or not the request succeeded.
C12_ReorderFailureSkipped ==
    (pc = "done" /\ event = "FILE_DOWNLOADED" /\ "FileMoveTop" \in Range(calls))
        => WentThroughDetecting

\* A check of start_check that comes before the directory check applies
StopsBeforeDirectory ==
    \/ event = "OTHER"
    \/ status = "FAILURE/BAD"
    \/ flagged
    \/ preset

\* C13: in a run whose job directory does not exist (any known event, no earlier
\* check stopping the run, PassAction set, no failed reordering), no step probes
\* a file or changes the job's temp file other than by clean_up, and the run
\* ends with the no-opinion code.
C13_MissingDirectoryNoOpinion ==
    [][(/\ pc' # "idle"
        /\ ~dirOk'
        /\ ~StopsBeforeDirectory'
        /\ passAction' # "missing"
        /\ ~SortCrashed')
          => (/\ probes' = <<>>
              /\ (store'[job'] = store[job'] \/ pc = "clean_up")
              /\ (pc' = "done" => exitCode' = POSTPROCESS_NONE))]_vars

\* C14: when a post-processing run has ended with the success or the no-opinion
\* code (not with the error code and not in an exception), the job of the run
\* has no temp file, whether or not the host reports the job in the queue.
C14_OwnRecordRemoved ==
    (pc = "done" /\ event = "PP"
       /\ exitCode \in {POSTPROCESS_SUCCESS, POSTPROCESS_NONE})
        => store[job] = NoFile

\* C14 witness: a post-processing run went through the detection and removed
\* its own temp file although the host, asked for the queue, reported the job
\* (the temp file of the other job in the queue was kept)
C14_Witness ==
    /\ pc = "done"
    /\ event = "PP"
    /\ rule = "none"
    /\ exitCode = POSTPROCESS_SUCCESS
    /\ "listgroups" \in Range(calls)
    /\ job \in queue
    /\ job \in removed
    /\ TempFiles # {}

\* The first of the skip rules 1-4 that applies to the run ("none": none does)
FirstSkip ==
    IF status = "FAILURE/BAD" THEN "SkipAlreadyMarked"
    ELSE IF flagged THEN "SkipPasswordFound"
    ELSE IF preset THEN "SkipPasswordPreset"
    ELSE IF event = "PP" /\ ~dirOk THEN "SkipMissingDirectory"
    ELSE IF total = "FAILURE" THEN "SkipAlreadyFailed"
    ELSE "none"

\* The exit code of a run stopped by skip rule r
SkipOutcome(r) ==
    IF r \in SkipsWithSuccess THEN POSTPROCESS_SUCCESS ELSE POSTPROCESS_NONE

\* C15: in a run on a known event to which one of the skip rules applies, no
\* step probes or visits a file, adds a name to a temp file (temp files are
\* left as they are or removed), asks the host to reorder or to pause, or prints
\* a command for the host; the first rule that applies is the one that stops
\* the run, and it gives the exit code.
C15_SkipRules ==
    [][(pc' # "idle" /\ event' # "OTHER" /\ FirstSkip' # "none")
          => (/\ probes' = <<>>
              /\ visited' = <<>>
              /\ \A k \in Jobs : store'[k] = store[k] \/ store'[k] = NoFile
              /\ Range(calls') \cap {"listfiles", "FileMoveTop", "GroupPause"} = {}
              /\ marks' = <<>>
              /\ rule' = FirstSkip'
              /\ (pc' = "done" => exitCode' = SkipOutcome(FirstSkip')))]_vars

\* C15 witness: a post-processing run to which three rules apply (password
\* preset, missing directory, failed total status) was stopped by the first of
\* them and removed a temp file in clean_up
C15_Witness ==
    /\ pc = "done"
    /\ event = "PP"
    /\ status # "FAILURE/BAD" /\ ~flagged
    /\ preset /\ ~dirOk /\ total = "FAILURE"
    /\ rule = "SkipPasswordPreset"
    /\ exitCode = POSTPROCESS_SUCCESS
    /\ removed # {}

\* C16: a run asks the host to pause the job, or prints MARK=BAD, only if one of
\* its probes was positive; and once the run has acted on a positive probe, it
\* has printed the password-found flag, it has asked for the pause exactly when
\* PassAction is "Pause" and printed MARK=BAD exactly when it is "Mark Bad",
\* never both.
C16_ActionOnlyOnPositive ==
    /\ ("GroupPause" \in Range(calls) \/ "MARK=BAD" \in Range(marks)) => ~NoPositive
    /\ (pc \in {"clean_up", "done"} /\ ~NoPositive)
          => (/\ "HASPASSWORD=yes" \in Range(marks)
              /\ "GroupPause" \in Range(calls) <=> passAction = "Pause"
              /\ "MARK=BAD" \in Range(marks) <=> passAction = "Mark Bad"
              /\ ~("GroupPause" \in Range(calls) /\ "MARK=BAD" \in Range(marks)))

\* C16 witness: a run ended after a probe with an error and a positive probe,
\* with PassAction "Mark Bad": MARK=BAD printed, no pause asked
C16_Witness ==
    /\ pc = "done"
    /\ Len(probes) = 2
    /\ probes[1][2] = "error"
    /\ PositiveAt(2)
    /\ passAction = "Mark Bad"
    /\ "MARK=BAD" \in Range(marks)
    /\ "GroupPause" \notin Range(calls)

SortCalls == {"listfiles", "FileMoveTop"}

\* C17: a step of a run for a job whose reordering-done flag is set makes no
\* listfiles and no FileMoveTop request; and a run on the NZB_ADDED event that
\* no check of start_check stops (PassAction set) ends with the no-opinion code,
\* with no probe and with the temp files untouched.
C17_ReorderOnceThenDefer ==
    [][/\ (pc' # "idle" /\ sorted[job'] /\ calls' # calls)
             => calls'[Len(calls')] \notin SortCalls
       /\ (pc' = "done" /\ event' = "NZB_ADDED" /\ ~StopsBeforeOption'
              /\ passAction' # "missing")
             => (/\ exitCode' = POSTPROCESS_NONE
                 /\ probes' = <<>>
                 /\ store' = store)]_vars

ErrorAt(i) == probes[i][2] = "error"

\* C18: a probe that ends in an exception does not make the run act as on a
\* password found; the loop goes on (a run without a positive probe visits every
\* file it was given); and when a run on a queue event has ended with success,
\* every file whose probe ended in an exception is in the job's temp file.
C18_FailedProbeRecorded ==
    /\ pc = "found" => ~NoPositive
    /\ (pc = "done" /\ exitCode = POSTPROCESS_SUCCESS /\ NoPositive) => files = <<>>
    /\ (pc = "done" /\ event # "PP" /\ exitCode = POSTPROCESS_SUCCESS)
          => \A i \in 1..Len(probes) :
                ErrorAt(i) => probes[i][1] \in RecordedNames(job)

\* The listgroups requests the run has made
ListGroupsCalls == {i \in 1..Len(calls) : calls[i] = "listgroups"}

\* C19: a run asks the host for the download queue at most once, and only in
\* clean_up; when clean_up found at most one temp file, it did not ask at all.
C19_OneQuery ==
    /\ Cardinality(ListGroupsCalls) <= 1
    /\ ~CleanedUp => ListGroupsCalls = {}
    /\ (CleanedUp /\ Cardinality(TempFiles \cup removed) <= 1) => ListGroupsCalls = {}

\* C19 witness: clean_up removed two temp files after one request
C19_Witness ==
    /\ CleanedUp
    /\ Cardinality(removed) = 2
    /\ Cardinality(ListGroupsCalls) = 1

\* C20: when a run with PassAction "Pause" has ended having published the
\* password-found flag of its job, the pause request for that job has succeeded.
C20_FlaggedOnlyIfPaused ==
    (/\ pc = "done"
     /\ passAction = "Pause"
     /\ "HASPASSWORD=yes" \in Range(marks)
     /\ hasPassword[job])
        => paused[job]

----------------------------------------------------------------------------
(* sort_inner_files' selection on its own: every reply of listfiles up to     *)
(* MaxListing entries, taken one "ID"/"Filename" pair at a time               *)

\* No script runs: the values of the run's variables between two runs
NoRun ==
    /\ pc = "idle"
    /\ job = 0
    /\ event = "none"
    /\ flagged = FALSE
    /\ dirOk = TRUE
    /\ preset = FALSE
    /\ status = "absent"
    /\ total = "absent"
    /\ passAction = "none"
    /\ listing = <<>>
    /\ rule = "none"
    /\ files = <<>>
    /\ visited = <<>>
    /\ probes = <<>>
    /\ tested = <<>>
    /\ reprobe = FALSE
    /\ calls = <<>>
    /\ marks = <<>>
    /\ queue = {}
    /\ removed = {}
    /\ exitAfter = 0
    /\ exitCode = 0

InitSel ==
    /\ store = [j \in Jobs |-> NoFile]
    /\ tempDir = FALSE
    /\ hasPassword = [j \in Jobs |-> FALSE]
    /\ sorted = [j \in Jobs |-> FALSE]
    /\ paused = [j \in Jobs |-> FALSE]
    /\ probed = [j \in Jobs |-> {}]
    /\ NoRun
    /\ trk = TrkOff
    /\ \E data \in Listings(MaxListing) :
          sel = [phase |-> "loop", data |-> data, pos |-> 0, choice |-> NoChoice]

\* The loop of lines 343-354 takes the next pair of the reply
select_next ==
    /\ sel.phase = "loop"
    /\ sel.pos < Len(sel.data)
    /\ sel' = [sel EXCEPT !.pos = @ + 1,
                          !.choice = SelectStep(@, sel.data[sel.pos + 1])]
    /\ UNCHANGED <<world, runvars, trk>>

\* The loop is over: lines 357-366 decide whether a file is moved
select_end ==
    /\ sel.phase = "loop"
    /\ sel.pos = Len(sel.data)
    /\ sel' = [sel EXCEPT !.phase = IF ~sel.choice.isNone /\ sel.choice.file_id # 0
                                    THEN "move" ELSE "skip"]
    /\ UNCHANGED <<world, runvars, trk>>

NextSel == select_next \/ select_end

SpecSel == InitSel /\ [][NextSel]_vars

\* The pairs taken so far whose name matches a pattern
Matching == {i \in 1..sel.pos : MatchNum(sel.data[i].name) # {}}
NumAt(i) == Max(MatchNum(sel.data[i].name))
Greatest == Max({NumAt(i) : i \in Matching})
FirstGreatest == CHOOSE i \in Matching :
                    /\ NumAt(i) = Greatest
                    /\ \A k \in Matching : NumAt(k) = Greatest => i <= k

\* C6: the part chosen has the greatest number among the matching files, and
\* among the files with that number it is the first of the listing; nothing is
\* chosen only when no file matches.
C6_FirstGreatest ==
    sel.phase # "off" =>
        IF Matching = {} THEN sel.choice.isNone
        ELSE /\ ~sel.choice.isNone
             /\ sel.choice.file_num = Greatest
             /\ sel.choice.file_id = sel.data[FirstGreatest].id

----------------------------------------------------------------------------
(* The tested-file record on its own: recordTested (the text contains_password *)
(* collects, then save_tested) followed by untested (get_latest_file), with a  *)
(* restart of the process in between                                           *)

\* Filenames, two of them with a line break in the name
F_nl == <<"a", LF, "b">>
F_cr == <<"c", CR>>
TrkNames == {F_a, F_b, F_tmp, F_nl, F_cr}

\* The filename sets F of at most maxLen names, in the order the loop visits them
NameSeqs(maxLen) ==
    UNION {Orders(S) : S \in {T \in SUBSET TrkNames : Cardinality(T) <= maxLen}}

\* The temp file of the job before recordTested
OldRecords == {NoFile, <<>>, AddTested(<<>>, F_c)}

\* tested = ''; for file in files: tested += file + '\n'
RECURSIVE TestedText(_)
TestedText(F) ==
    IF F = <<>> THEN <<>> ELSE AddTested(TestedText(SubSeq(F, 1, Len(F) - 1)), F[Len(F)])

InitTrk ==
    /\ \E j \in Jobs, old \in OldRecords :
          /\ store = [k \in Jobs |-> IF k = j THEN old ELSE NoFile]
          /\ \E F \in NameSeqs(MaxNames) :
                trk = [phase |-> "start", job |-> j, F |-> F, out |-> {}]
    /\ tempDir = TRUE
    /\ hasPassword = [j \in Jobs |-> FALSE]
    /\ sorted = [j \in Jobs |-> FALSE]
    /\ paused = [j \in Jobs |-> FALSE]
    /\ probed = [j \in Jobs |-> {}]
    /\ NoRun
    /\ sel = SelOff

\* recordTested(J, F): the names are collected in `tested` and appended
record_tested ==
    /\ trk.phase = "start"
    /\ tested' = TestedText(trk.F)
    /\ store' = [store EXCEPT ![trk.job] = Appended(@, TestedText(trk.F))]
    /\ trk' = [trk EXCEPT !.phase = "recorded"]
    /\ UNCHANGED <<tempDir, hasPassword, sorted, paused, probed, sel>>
    /\ UNCHANGED <<pc, job, event, flagged, dirOk, preset, status, total, passAction,
                   listing, rule, files, visited, probes, reprobe, calls, marks, queue,
                   removed, exitAfter, exitCode>>

\* The process ends and a new one starts: only the temp files remain
restart ==
    /\ trk.phase = "recorded"
    /\ tested' = <<>>
    /\ trk' = [trk EXCEPT !.phase = "restarted"]
    /\ UNCHANGED <<world, sel>>
    /\ UNCHANGED <<pc, job, event, flagged, dirOk, preset, status, total, passAction,
                   listing, rule, files, visited, probes, reprobe, calls, marks, queue,
                   removed, exitAfter, exitCode>>

\* untested(J, L) with L = F: get_latest_file on a directory that holds F
untested ==
    /\ trk.phase \in {"recorded", "restarted"}
    /\ trk' = [trk EXCEPT
                 !.phase = "read",
                 !.out = IF store[trk.job] # NoFile
                         THEN Untested(trk.F, splitlines(store[trk.job]))
                         ELSE Range(trk.F)]
    /\ UNCHANGED <<world, runvars, sel>>

NextTrk == record_tested \/ restart \/ untested

SpecTrk == InitTrk /\ [][NextTrk]_vars

\* C9: after recordTested(J, F), untested(J, F) is empty, with or without a
\* restart in between.
C9_NothingUntested == trk.phase = "read" => trk.out = {}

====
